---- MODULE Spec2Model ----
(***************************************************************************)
(* Model of two classes of tk-multi-loader2:                               *)
(*   LoaderActionManager        (python/tk_multi_loader/                   *)
(*                               loader_action_manager.py)                 *)
(*   SgLatestPublishProxyModel  (python/tk_multi_loader/                   *)
(*                               proxymodel_latestpublish.py)              *)
(* The two share no state.  Spec is the action manager, SpecFilter the     *)
(* proxy model.                                                            *)
(***************************************************************************)
EXTENDS Integers, Sequences, FiniteSets, TLC

\* Longest list of publishes handed to get_actions_for_publishes.
MaxSel == 2

\* Number of filter setter calls on the proxy model.
MaxSetterCalls == 2

\* Python's None, where a string stands in the same place.
None == "None"

\* No exception.
NoError == "NoError"

(***************************************************************************)
(* LoaderActionManager                                                     *)
(***************************************************************************)

UI_AREA_MAIN == "UI_AREA_MAIN"
UI_AREA_DETAILS == "UI_AREA_DETAILS"
UI_AREA_HISTORY == "UI_AREA_HISTORY"
\* A value that is none of the three areas.
UI_AREA_OTHER == "UI_AREA_OTHER"

SupportedAreas == {UI_AREA_MAIN, UI_AREA_DETAILS, UI_AREA_HISTORY}

\* The action_mappings setting: { "Maya Scene": ["reference", "import"] },
\* and one publish type configured with an empty list.
mappings ==
  [t \in {"Maya Scene", "Alembic Cache"} |->
     IF t = "Maya Scene" THEN <<"reference", "import">> ELSE <<>>]

\* mappings.get(publish_type, [])
mappings_get(publish_type) ==
  IF publish_type \in DOMAIN mappings THEN mappings[publish_type] ELSE <<>>

\* The publish types a record can carry; None is a publish without a type,
\* "Rendered Image" a type the setting does not mention.
PublishTypes == {None, "Maya Scene", "Alembic Cache", "Rendered Image"}

\* A definition of the hook that lacks its "name" key.
NoName == "<no name>"

\* The behaviours of the actions hook the model draws from.
HookBehaviours == {"all", "reference", "raises", "malformed", "by_area"}

\* One action definition as generate_actions builds it for a publish: the
\* params and the caption are opaque to the manager, here they name the
\* publish, the action and the area they were generated for.
ActionDef(sg_data, n, ui_area_str) ==
  [name    |-> n,
   caption |-> <<n, sg_data.id>>,
   params  |-> [id |-> sg_data.id, action |-> n, ui_area |-> ui_area_str]]

\* The generate_actions hook: a function of the publish, the configured
\* actions and the area.  It returns a list of definitions or raises.
generate_actions(sg_data, actions, ui_area_str) ==
  LET defs(names) == [i \in 1..Len(names) |-> ActionDef(sg_data, names[i], ui_area_str)]
      h == sg_data.hook
  IN  [raises |-> (h = "raises"),
       defs   |->
         CASE h = "all"       -> defs(actions)
           [] h = "reference" -> defs(<<"reference">>)
           [] h = "raises"    -> defs(<<>>)
           [] h = "malformed" -> defs(<<"reference", NoName, "import">>)
           [] h = "by_area"   ->
                IF ui_area_str = "main" THEN defs(actions)
                ELSE IF ui_area_str = "details" THEN defs(<<"import">>)
                ELSE defs(<<>>)]

\* for action_def in action_defs_list:
\*     action_defs_dict[action_def["name"]] = action_def
\* A definition without "name" raises KeyError, which ends the loop: the
\* entries made so far stay in the dictionary.
RECURSIVE IndexByName(_, _, _)
IndexByName(action_defs_list, k, action_defs_dict) ==
  IF k > Len(action_defs_list) THEN action_defs_dict
  ELSE IF action_defs_list[k].name = NoName THEN action_defs_dict
  ELSE IndexByName(action_defs_list, k + 1,
                   (action_defs_list[k].name :> action_defs_list[k]) @@ action_defs_dict)

\* The name of the publish type of sg_data, "undefined" without a type.
publish_type_of(sg_data) == IF sg_data.type = None THEN "undefined" ELSE sg_data.type

\* ui_area_str of a supported area.
ui_area_str_of(ui_area) ==
  CASE ui_area = UI_AREA_DETAILS -> "details"
    [] ui_area = UI_AREA_HISTORY -> "history"
    [] ui_area = UI_AREA_MAIN    -> "main"

\* _get_named_actions_for_publish with the else branch of the area
\* resolution falling back to "main" instead of raising.
_get_named_actions_defaulting_area(sg_data, ui_area) ==
  LET actions == mappings_get(publish_type_of(sg_data))
  IN  IF Len(actions) = 0
      THEN [raised |-> NoError, is_dict |-> FALSE, value |-> <<>>,
            hooked |-> FALSE, normalised |-> FALSE]
      ELSE LET ui_area_str == IF ui_area \in SupportedAreas
                              THEN ui_area_str_of(ui_area) ELSE "main"
               hook == generate_actions(sg_data, actions, ui_area_str)
           IN  [raised |-> NoError, is_dict |-> TRUE,
                value  |-> IF hook.raises THEN <<>>
                           ELSE IndexByName(hook.defs, 1, <<>>),
                hooked |-> TRUE, normalised |-> TRUE]

\* One call of _get_named_actions_for_publish:
\*   raised      the exception that leaves the call (NoError: it returns)
\*   is_dict     whether the value returned is a dictionary (else the list [])
\*   value       the dictionary, a function from action names to definitions
\*   hooked      whether generate_actions was invoked
\*   normalised  whether created_at was looked at for conversion
_get_named_actions_for_publish(sg_data, ui_area) ==
  LET actions == mappings_get(publish_type_of(sg_data))
  IN  IF Len(actions) = 0
      THEN [raised |-> NoError, is_dict |-> FALSE, value |-> <<>>,
            hooked |-> FALSE, normalised |-> FALSE]
      ELSE IF ui_area \notin SupportedAreas
      THEN [raised |-> "TankError", is_dict |-> FALSE, value |-> <<>>,
            hooked |-> FALSE, normalised |-> FALSE]
      ELSE LET hook == generate_actions(sg_data, actions, ui_area_str_of(ui_area))
           IN  [raised |-> NoError, is_dict |-> TRUE,
                value  |-> IF hook.raises THEN <<>>
                           ELSE IndexByName(hook.defs, 1, <<>>),
                hooked |-> TRUE, normalised |-> TRUE]

\* has_actions(publish_type)
has_actions(publish_type) == Len(mappings_get(publish_type)) > 0


\* entity_actions of the inner loop: the other publishes are always resolved
\* against UI_AREA_DETAILS.
entity_actions(sg_data) == _get_named_actions_for_publish(sg_data, UI_AREA_DETAILS)

\* "name in entity_actions", for the dictionary and for the list [] alike.
NameIn(name, named) == name \in DOMAIN named.value

\* Position in `rest` of the first publish whose actions lack `name`, where
\* the inner loop deletes the name and breaks; Len(rest) + 1 when there is none.
RECURSIVE FirstMissing(_, _, _)
FirstMissing(rest, k, name) ==
  IF k > Len(rest) THEN k
  ELSE IF NameIn(name, entity_actions(rest[k])) THEN FirstMissing(rest, k + 1, name)
  ELSE k

\* The publishes of `rest` the inner loop visits for `name`.
VisitedFor(rest, name) ==
  LET m == FirstMissing(rest, 1, name)
  IN  1..(IF m > Len(rest) THEN Len(rest) ELSE m)

\* Number of generate_actions invocations of the inner loop, all names together.
RECURSIVE SumHooked(_, _)
SumHooked(rest, names) ==
  IF names = {} THEN 0
  ELSE LET n == CHOOSE x \in names : TRUE
       IN  Cardinality({k \in VisitedFor(rest, n) : entity_actions(rest[k]).hooked})
           + SumHooked(rest, names \ {n})

\* get_actions_for_publishes(sg_data_list, ui_area).  Two things the code
\* leaves to the iteration order of a dictionary are parameters here:
\*   action  the value the variable `action` of the list comprehension of
\*           line 149 holds after it (the last item of iteritems()), which
\*           line 171 then reads;
\*   order   the surviving names in the order of values() at line 181.
\* It yields
\*   raised      the exception leaving the call (NoError: it returns)
\*   actions     the QActions: name, caption and the action_list the
\*               generator `pairs` of line 194 runs over
\*   hook_calls  the number of generate_actions invocations
\*   normalised  the ids of the publishes whose created_at was converted
get_actions_for_publishes(list, area, action, order) ==
  IF Len(list) = 0
  THEN [raised |-> NoError, actions |-> <<>>, hook_calls |-> 0, normalised |-> {}]
  ELSE
    LET first == _get_named_actions_for_publish(list[1], area)
        first_entity_actions == first.value
        rest == SubSeq(list, 2, Len(list))
        names == DOMAIN first_entity_actions
        intersection_actions_per_name(name) ==
          <<[sg_data |-> list[1].id, action_def |-> first_entity_actions[name]]>>
          \o [k \in 1..Len(rest) |-> [sg_data |-> rest[k].id, action_def |-> action]]
        QAction(action_list) ==
          [name        |-> action_list[1].action_def.name,
           caption     |-> action_list[1].action_def.caption,
           action_list |-> action_list]
        visited == UNION {VisitedFor(rest, n) : n \in names}
    IN  IF first.raised # NoError
        THEN [raised |-> first.raised, actions |-> <<>>, hook_calls |-> 0,
              normalised |-> {}]
        ELSE IF ~first.is_dict
        THEN \* [].iteritems()
             [raised |-> "AttributeError", actions |-> <<>>, hook_calls |-> 0,
              normalised |-> {}]
        ELSE [raised     |-> NoError,
              actions    |-> [i \in 1..Len(order) |->
                                QAction(intersection_actions_per_name(order[i]))],
              hook_calls |-> 1 + SumHooked(rest, names),
              normalised |-> {list[1].id} \cup
                             {rest[k].id : k \in {j \in visited : entity_actions(rest[j]).normalised}}]

\* The names left in intersection_actions_per_name after the loops of lines
\* 161-176.
Surviving(list, area) ==
  LET first == _get_named_actions_for_publish(list[1], area)
      rest == SubSeq(list, 2, Len(list))
  IN  {n \in DOMAIN first.value : FirstMissing(rest, 1, n) > Len(rest)}

\* The values `action` can hold at line 171: any definition of the first
\* publish (none when it has no definition: the loops then never run).
StaleActions(list, area) ==
  LET first == _get_named_actions_for_publish(list[1], area)
  IN  IF DOMAIN first.value = {} THEN {[name |-> NoName]}
      ELSE {first.value[n] : n \in DOMAIN first.value}

\* The orders a set of names can be iterated in.
Orders(S) ==
  {o \in [1..Cardinality(S) -> S] : \A i, j \in DOMAIN o : i # j => o[i] # o[j]}

\* _execute_hook(action_name, data_pairs): data_pairs is what the generator
\* still has to yield; `failing` are the publishes for which the
\* execute_action hook raises.  The try statement encloses the for loop.
\*   executed  the execute_action invocations made, in order
\*   taken     the number of pairs drawn from the generator
\*   messages  the number of QMessageBox.critical dialogs
RECURSIVE FirstFailing(_, _, _)
FirstFailing(data_pairs, k, failing) ==
  IF k > Len(data_pairs) THEN k
  ELSE IF data_pairs[k].sg_data \in failing THEN k
  ELSE FirstFailing(data_pairs, k + 1, failing)

_execute_hook(action_name, data_pairs, failing) ==
  LET f == FirstFailing(data_pairs, 1, failing)
      taken == IF f > Len(data_pairs) THEN Len(data_pairs) ELSE f
  IN  [executed |-> [k \in 1..taken |->
                       [name            |-> action_name,
                        params          |-> data_pairs[k].params,
                        sg_publish_data |-> data_pairs[k].sg_data]],
       taken    |-> taken,
       messages |-> IF f > Len(data_pairs) THEN 0 ELSE 1]

\* The generator expression of line 194 over an action_list.
pairs(action_list) ==
  [k \in 1..Len(action_list) |->
     [sg_data |-> action_list[k].sg_data, params |-> action_list[k].action_def.params]]

VARIABLES
  sg_data_list,   \* the publishes the caller has selected
  ui_area,        \* the area the caller asks from
  created_at,     \* per selected publish: "float" or "datetime"
  call,           \* the last call made: op, the publishes passed, what it raised,
                  \* the number of generate_actions invocations
  actions,        \* the QActions the last call returned
  consumed,       \* per QAction: pairs already drawn from its generator
  trigger         \* the last trigger: the QAction, the failing publishes,
                  \* what the generator had left, and what _execute_hook did

amVars == <<sg_data_list, ui_area, created_at, call, actions, consumed, trigger>>

\* The state of the proxy model.
VARIABLES
  _valid_type_ids,   \* None or the type ids let through
  _show_folders,
  _valid_statuses,   \* None, 'All' or a status
  filter_regexp,     \* filterRegExp(), the search text
  invalidated,       \* number of invalidateFilter() calls
  emitted,           \* number of filter_changed emissions
  setter_calls,      \* number of set_filter_by_* calls, and the last one:
  last_setter,       \*   its name, its arguments, what it did in order
  accepted           \* the filter result the proxy holds for a row

pmVars == <<_valid_type_ids, _show_folders, _valid_statuses, filter_regexp,
            invalidated, emitted, setter_calls, last_setter, accepted>>

vars == <<amVars, pmVars>>

NoCall == [op |-> "none", args |-> <<>>, raised |-> NoError, hook_calls |-> 0]
NoTrigger == [a |-> 0, failing |-> {}, data_pairs |-> <<>>, executed |-> <<>>, messages |-> 0]

\* The publishes of a selection: a type and a hook behaviour each, the id is
\* the position in the selection.  Publishes whose type has no configured
\* action all get the hook that would return "reference" were it invoked.
RecordKinds ==
  {[type |-> "Maya Scene", hook |-> h] : h \in HookBehaviours}
  \cup {[type |-> t, hook |-> "reference"] : t \in PublishTypes \ {"Maya Scene"}}

Selections ==
  UNION {{[i \in 1..n |-> [type |-> k[i].type, hook |-> k[i].hook, id |-> i]] :
            k \in [1..n -> RecordKinds]} : n \in 0..MaxSel}

InitAM ==
  /\ sg_data_list \in Selections
  /\ ui_area \in SupportedAreas \cup {UI_AREA_OTHER}
  /\ created_at = [i \in 1..Len(sg_data_list) |-> "float"]
  /\ call = NoCall
  /\ actions = <<>>
  /\ consumed = <<>>
  /\ trigger = NoTrigger

\* What a call leaves behind; `returned` are the QActions handed to the caller.
Resolved(op, args, r, returned) ==
  /\ call' = [op |-> op, args |-> args, raised |-> r.raised, hook_calls |-> r.hook_calls]
  /\ actions' = returned
  /\ consumed' = [i \in 1..Len(returned) |-> 0]
  /\ created_at' = [i \in 1..Len(sg_data_list) |->
                      IF i \in r.normalised THEN "datetime" ELSE created_at[i]]
  /\ trigger' = NoTrigger
  /\ UNCHANGED <<sg_data_list, ui_area, pmVars>>

\* get_actions_for_publishes(sg_data_list, ui_area) on the whole selection.
GetActionsForPublishes ==
  \E action \in (IF sg_data_list = <<>> THEN {[name |-> NoName]}
                 ELSE StaleActions(sg_data_list, ui_area)) :
  \E order \in (IF sg_data_list = <<>> THEN {<<>>}
                ELSE Orders(Surviving(sg_data_list, ui_area))) :
    LET r == get_actions_for_publishes(sg_data_list, ui_area, action, order)
    IN  Resolved("get_actions_for_publishes", sg_data_list, r, r.actions)

\* get_actions_for_publish(sg_data, ui_area) on one publish of the selection.
GetActionsForPublish ==
  \E i \in 1..Len(sg_data_list) :
  \E order \in Orders(Surviving(<<sg_data_list[i]>>, ui_area)) :
    LET r == get_actions_for_publishes(<<sg_data_list[i]>>, ui_area, [name |-> NoName], order)
    IN  Resolved("get_actions_for_publish", <<sg_data_list[i]>>, r, r.actions)

\* get_default_action_for_publish(sg_data, ui_area): actions[0] if actions
\* else None; None is the empty list of returned QActions here.
GetDefaultActionForPublish ==
  \E i \in 1..Len(sg_data_list) :
  \E order \in Orders(Surviving(<<sg_data_list[i]>>, ui_area)) :
    LET r == get_actions_for_publishes(<<sg_data_list[i]>>, ui_area, [name |-> NoName], order)
    IN  Resolved("get_default_action_for_publish", <<sg_data_list[i]>>, r,
                 IF Len(r.actions) > 0 THEN <<r.actions[1]>> ELSE <<>>)

\* The triggered signal of QAction a: the lambda of line 198 runs
\* _execute_hook(n, data_list) on the generator bound at creation.  `failing`
\* are the publishes, among those the generator has left, for which
\* execute_action raises this time.
Triggered ==
  /\ \E a \in 1..Len(actions) :
       LET all == pairs(actions[a].action_list)
           data_pairs == SubSeq(all, consumed[a] + 1, Len(all))
       IN  \E failing \in SUBSET {data_pairs[k].sg_data : k \in 1..Len(data_pairs)} :
             LET r == _execute_hook(actions[a].name, data_pairs, failing)
             IN  /\ consumed' = [consumed EXCEPT ![a] = consumed[a] + r.taken]
                 /\ trigger' = [a |-> a, failing |-> failing, data_pairs |-> data_pairs,
                                executed |-> r.executed, messages |-> r.messages]
  /\ UNCHANGED <<sg_data_list, ui_area, created_at, call, actions, pmVars>>

(***************************************************************************)
(* SgLatestPublishProxyModel                                               *)
(***************************************************************************)

\* A set of type ids, or None.
NoneIds == [is_none |-> TRUE, ids |-> {}]
Ids(S) == [is_none |-> FALSE, ids |-> S]

\* The type id of an item (TYPE_ID_ROLE), or None.
NoTypeId == [is_none |-> TRUE, id |-> 0]
TypeId(n) == [is_none |-> FALSE, id |-> n]

\* Texts are sequences of characters.
Lower(c) == CASE c = "A" -> "a" [] c = "B" -> "b" [] OTHER -> c

\* QRegExp.indexIn(text) != -1 for a fixed-string pattern made case
\* insensitive: the pattern occurs somewhere in the text, letter case aside.
Matches(search_exp, text) ==
  \E off \in 0..(Len(text) - Len(search_exp)) :
    \A k \in 1..Len(search_exp) : Lower(text[off + k]) = Lower(search_exp[k])

\* get_sg_data() of an item: None, an empty dictionary, or a dictionary
\* with a name and a status (the status itself may be None).
NoSgData == [kind |-> "None", name |-> <<>>, sg_status_list |-> None]
EmptySgData == [kind |-> "empty", name |-> <<>>, sg_status_list |-> None]
SgData(name, status) == [kind |-> "dict", name |-> name, sg_status_list |-> status]

\* filterAcceptsRow for the item of the row, under the given criteria.
\* publish_status is assigned only when sg_data is truthy; reading it
\* unassigned raises UnboundLocalError.
filterAcceptsRow(current_item, valid_statuses, valid_type_ids, show_folders, search_exp) ==
  LET sg_data == current_item.sg_data
      truthy == sg_data.kind = "dict"
      publish_name == IF truthy THEN sg_data.name ELSE <<>>
      is_folder == current_item.is_folder
      sg_type_id == current_item.type_id
      Return(b) == [raised |-> NoError, value |-> b]
      rest ==
        IF valid_type_ids.is_none THEN Return(TRUE)
        ELSE IF is_folder THEN Return(show_folders)
        ELSE IF sg_type_id.is_none THEN Return(TRUE)
        ELSE IF sg_type_id.id \in valid_type_ids.ids /\ Matches(search_exp, publish_name)
             THEN Return(TRUE)
        ELSE Return(FALSE)
  IN  IF valid_statuses \notin {None, "All"}
      THEN IF ~truthy THEN [raised |-> "UnboundLocalError", value |-> FALSE]
           ELSE IF sg_data.sg_status_list # valid_statuses THEN Return(FALSE)
           ELSE rest
      ELSE rest

Criteria == [type_ids |-> _valid_type_ids, show_folders |-> _show_folders,
             statuses |-> _valid_statuses]

TypeIdFilters == {NoneIds, Ids({}), Ids({7}), Ids({7, 9})}
StatusFilters == {None, "All", "apr", "ip"}
SearchTexts == {<<>>, <<"a", "B">>, <<"b">>}
PublishNames == {<<"A", "b">>, <<"a">>}

Rows ==
  [sg_data   : {NoSgData, EmptySgData}
               \cup {SgData(n, st) : n \in PublishNames, st \in {None, "apr", "ip"}},
   is_folder : BOOLEAN,
   type_id   : {NoTypeId, TypeId(7), TypeId(9)}]

NoRow == [sg_data |-> NoSgData, is_folder |-> FALSE, type_id |-> NoTypeId]
NoEval == [evaluated |-> FALSE, row |-> NoRow, result |-> [raised |-> NoError, value |-> FALSE]]
NoSetter == [op |-> "none", type_ids |-> NoneIds, show_folders |-> TRUE,
             statuses |-> None, events |-> <<>>]

\* __init__
ConstructedPM ==
  /\ _valid_type_ids = NoneIds
  /\ _show_folders = TRUE
  /\ _valid_statuses = None
  /\ invalidated = 0
  /\ emitted = 0
  /\ setter_calls = 0
  /\ last_setter = NoSetter
  /\ accepted = NoEval

InitPM ==
  /\ ConstructedPM
  /\ filter_regexp \in SearchTexts

\* What the view is told, with the criteria in force at that moment.
Event(ev, type_ids, show_folders, statuses) ==
  [ev |-> ev, seen |-> [type_ids |-> type_ids, show_folders |-> show_folders,
                        statuses |-> statuses]]

\* set_filter_by_type_ids(type_ids, show_folders)
set_filter_by_type_ids ==
  /\ setter_calls < MaxSetterCalls
  /\ \E type_ids \in TypeIdFilters, show_folders \in BOOLEAN :
       /\ _valid_type_ids' = type_ids
       /\ _show_folders' = show_folders
       /\ invalidated' = invalidated + 1
       /\ accepted' = NoEval
       /\ emitted' = emitted + 1
       /\ last_setter' =
            [op |-> "set_filter_by_type_ids", type_ids |-> type_ids,
             show_folders |-> show_folders, statuses |-> None,
             events |-> <<Event("invalidateFilter", type_ids, show_folders, _valid_statuses),
                          Event("filter_changed", type_ids, show_folders, _valid_statuses)>>]
  /\ setter_calls' = setter_calls + 1
  /\ UNCHANGED <<_valid_statuses, filter_regexp, amVars>>

\* set_filter_by_status without its invalidateFilter() call.
set_filter_by_status_not_invalidating ==
  /\ setter_calls < MaxSetterCalls
  /\ \E statuses \in StatusFilters :
       /\ _valid_statuses' = statuses
       /\ emitted' = emitted + 1
       /\ last_setter' =
            [op |-> "set_filter_by_status", type_ids |-> NoneIds,
             show_folders |-> TRUE, statuses |-> statuses,
             events |-> <<Event("filter_changed", _valid_type_ids, _show_folders, statuses)>>]
  /\ setter_calls' = setter_calls + 1
  /\ UNCHANGED <<_valid_type_ids, _show_folders, filter_regexp, invalidated, accepted, amVars>>

\* set_filter_by_status(statuses)
set_filter_by_status ==
  /\ setter_calls < MaxSetterCalls
  /\ \E statuses \in StatusFilters :
       /\ _valid_statuses' = statuses
       /\ invalidated' = invalidated + 1
       /\ accepted' = NoEval
       /\ emitted' = emitted + 1
       /\ last_setter' =
            [op |-> "set_filter_by_status", type_ids |-> NoneIds,
             show_folders |-> TRUE, statuses |-> statuses,
             events |-> <<Event("invalidateFilter", _valid_type_ids, _show_folders, statuses),
                          Event("filter_changed", _valid_type_ids, _show_folders, statuses)>>]
  /\ setter_calls' = setter_calls + 1
  /\ UNCHANGED <<_valid_type_ids, _show_folders, filter_regexp, amVars>>

\* The view asks filterAcceptsRow(source_row, source_parent_idx) for a row.
FilterAcceptsRow ==
  /\ \E current_item \in Rows :
       accepted' = [evaluated |-> TRUE, row |-> current_item,
                    result |-> filterAcceptsRow(current_item, _valid_statuses,
                                                _valid_type_ids, _show_folders,
                                                filter_regexp)]
  /\ UNCHANGED <<_valid_type_ids, _show_folders, _valid_statuses, filter_regexp,
                 invalidated, emitted, setter_calls, last_setter, amVars>>

(***************************************************************************)
(* Specifications                                                          *)
(***************************************************************************)

\* The action manager alone; the proxy model stays as constructed.
Init ==
  /\ InitAM
  /\ ConstructedPM
  /\ filter_regexp = <<>>

Next ==
  \/ GetActionsForPublishes
  \/ GetActionsForPublish
  \/ GetDefaultActionForPublish
  \/ Triggered

Spec == Init /\ [][Next]_vars

\* The proxy model alone; the action manager has nothing selected.
InitFilter ==
  /\ InitPM
  /\ sg_data_list = <<>>
  /\ ui_area = UI_AREA_MAIN
  /\ created_at = <<>>
  /\ call = NoCall
  /\ actions = <<>>
  /\ consumed = <<>>
  /\ trigger = NoTrigger

NextFilter ==
  \/ set_filter_by_type_ids
  \/ set_filter_by_status
  \/ FilterAcceptsRow

SpecFilter == InitFilter /\ [][NextFilter]_vars

(***************************************************************************)
(* Properties of the action manager, checked under Spec                    *)
(***************************************************************************)

Called == call.op # "none"

\* The area a publish of the list passed to a call is resolved against.
AreaOf(k) == IF k = 1 THEN ui_area ELSE UI_AREA_DETAILS

\* The action names of one publish on its own.
NamesOf(sg_data, area) == DOMAIN _get_named_actions_for_publish(sg_data, area).value

\* The intersection of the per-publish name sets of a non-empty list.
IntersectionOfNames(list) ==
  {n \in NamesOf(list[1], ui_area) : \A k \in 2..Len(list) : n \in NamesOf(list[k], AreaOf(k))}

ReturnedNames == {actions[i].name : i \in 1..Len(actions)}

\* C1: for every non-empty list of publishes and every supported area,
\* get_actions_for_publishes returns actions whose names are exactly the
\* intersection of the per-publish name sets (first publish at the requested
\* area, the others at UI_AREA_DETAILS).
C1_NamesAreIntersection ==
  (call.op = "get_actions_for_publishes" /\ Len(call.args) > 0 /\ ui_area \in SupportedAreas)
  => /\ call.raised = NoError
     /\ ReturnedNames = IntersectionOfNames(call.args)

\* What is left of C1 on the calls that return: the names are the intersection.
C1_NamesAreIntersectionWhenReturned ==
  (call.op = "get_actions_for_publishes" /\ Len(call.args) > 0 /\ call.raised = NoError)
  => /\ ReturnedNames = IntersectionOfNames(call.args)
     /\ Len(actions) = Cardinality(ReturnedNames)

\* C2: _execute_hook invokes execute_action for every pair handed to it,
\* whichever of them fail, and shows one error dialog per failing pair.
C2_EveryPairExecuted ==
  trigger.a # 0
  => /\ Len(trigger.executed) = Len(trigger.data_pairs)
     /\ trigger.messages =
          Cardinality({k \in DOMAIN trigger.data_pairs :
                         trigger.data_pairs[k].sg_data \in trigger.failing})

\* C3: every returned action holds one pair per publish passed, in the order
\* passed, and the pair of a publish carries the definition this publish's
\* own generate_actions result holds under the action's name.
C3_PairsCarryOwnDefinition ==
  (call.op = "get_actions_for_publishes" /\ call.raised = NoError)
  => \A i \in 1..Len(actions) :
       LET action_list == actions[i].action_list
       IN  /\ Len(action_list) = Len(call.args)
           /\ \A k \in 1..Len(action_list) :
                LET own == _get_named_actions_for_publish(call.args[k], AreaOf(k)).value
                IN  /\ action_list[k].sg_data = call.args[k].id
                    /\ actions[i].name \in DOMAIN own
                    /\ action_list[k].action_def = own[actions[i].name]

\* C4: with a first (or only) publish whose type has no configured action
\* (empty list, unmapped type, no type), get_actions_for_publishes,
\* get_actions_for_publish and get_default_action_for_publish complete
\* without raising, invoke no hook, and yield no action (None for the default
\* action).
C4_NoConfiguredActionsYieldsNone ==
  (Called /\ Len(call.args) > 0 /\ ~has_actions(publish_type_of(call.args[1])))
  => /\ call.raised = NoError
     /\ call.hook_calls = 0
     /\ actions = <<>>

\* Action generation fails for a publish: the hook raises, or one of the
\* definitions it returns cannot be indexed.
GenerationFails(sg_data, area) ==
  /\ has_actions(publish_type_of(sg_data))
  /\ area \in SupportedAreas
  /\ LET hook == generate_actions(sg_data, mappings_get(publish_type_of(sg_data)),
                                  ui_area_str_of(area))
     IN  \/ hook.raises
         \/ \E k \in DOMAIN hook.defs : hook.defs[k].name = NoName

\* C5: a publish whose action generation fails contributes no action: a call
\* with it as first publish returns none.
C5_FailedGenerationYieldsNone ==
  (Called /\ call.raised = NoError /\ Len(call.args) > 0
     /\ GenerationFails(call.args[1], ui_area))
  => actions = <<>>

\* C7: every trigger of a returned action, the first and the later ones,
\* invokes execute_action once per pair of the action, in pair-list order,
\* with the action's name and the pair's params.  Stated for the triggers
\* during which no execute_action call fails (failing calls are C2's case).
C7_EveryTriggerRunsAllPairs ==
  (trigger.a # 0 /\ trigger.failing = {})
  => trigger.executed =
       [k \in 1..Len(actions[trigger.a].action_list) |->
          [name            |-> actions[trigger.a].name,
           params          |-> actions[trigger.a].action_list[k].action_def.params,
           sg_publish_data |-> actions[trigger.a].action_list[k].sg_data]]

\* C8: with a first publish whose type has configured actions and a ui_area
\* that is none of the three areas, the call raises TankError to the caller
\* and generate_actions is not invoked.
C8_UnsupportedAreaPropagates ==
  (Called /\ Len(call.args) > 0 /\ has_actions(publish_type_of(call.args[1]))
     /\ ui_area \notin SupportedAreas)
  => /\ call.raised = "TankError"
     /\ call.hook_calls = 0
     /\ actions = <<>>

C8_Witness ==
  /\ call.op = "get_actions_for_publishes"
  /\ Len(call.args) = 2
  /\ publish_type_of(call.args[1]) = "Maya Scene"
  /\ call.args[1].hook = "all"
  /\ ui_area = UI_AREA_OTHER
  /\ call.raised = "TankError"

(***************************************************************************)
(* Properties of the proxy model, checked under SpecFilter                 *)
(***************************************************************************)

\* The status of a row: that of its data, None for a row without data.
StatusOf(row) == IF row.sg_data.kind = "dict" THEN row.sg_data.sg_status_list ELSE None

\* The display name of a row: that of its data, empty for a row without data.
NameOf(row) == IF row.sg_data.kind = "dict" THEN row.sg_data.name ELSE <<>>

\* The ordered chain of checks: status, accept-all type ids, folder, type id.
Chain(row, statuses, type_ids, show_folders, search_exp) ==
  IF statuses \notin {None, "All"} /\ StatusOf(row) # statuses THEN FALSE
  ELSE IF type_ids.is_none THEN TRUE
  ELSE IF row.is_folder THEN show_folders
  ELSE IF row.type_id.is_none THEN TRUE
  ELSE row.type_id.id \in type_ids.ids /\ Matches(search_exp, NameOf(row))

\* C6: for every row and every criteria filterAcceptsRow returns the result
\* of the ordered chain (status first, then accept-all type ids, then
\* folders, then the type id and the search text).
C6_ResultIsChain ==
  accepted.evaluated
  => accepted.result =
       [raised |-> NoError,
        value  |-> Chain(accepted.row, _valid_statuses, _valid_type_ids,
                         _show_folders, filter_regexp)]

\* What is left of C6 on the evaluations that return.
C6_ResultIsChainWhenReturned ==
  (accepted.evaluated /\ accepted.result.raised = NoError)
  => accepted.result.value = Chain(accepted.row, _valid_statuses, _valid_type_ids,
                                   _show_folders, filter_regexp)

\* C10: filterAcceptsRow returns a boolean and never fails, for a row
\* without data under a status filter too.
C10_NeverFails ==
  accepted.evaluated => accepted.result.raised = NoError

\* A step that is a call of one of the two setters.
SetterStep == setter_calls' = setter_calls + 1

\* C9: every setter call replaces its own criteria and no other, then
\* invalidates the filter, then emits filter_changed once; nothing else
\* changes the criteria; and every filterAcceptsRow result the proxy holds
\* was decided by the criteria written last.
C9_SettersStep ==
  /\ (SetterStep /\ last_setter'.op = "set_filter_by_type_ids")
     => /\ _valid_type_ids' = last_setter'.type_ids
        /\ _show_folders' = last_setter'.show_folders
        /\ _valid_statuses' = _valid_statuses
  /\ (SetterStep /\ last_setter'.op = "set_filter_by_status")
     => /\ _valid_statuses' = last_setter'.statuses
        /\ _valid_type_ids' = _valid_type_ids
        /\ _show_folders' = _show_folders
  /\ SetterStep
     => /\ last_setter'.op \in {"set_filter_by_type_ids", "set_filter_by_status"}
        /\ invalidated' = invalidated + 1
        /\ emitted' = emitted + 1
        /\ ~accepted'.evaluated
        /\ Len(last_setter'.events) = 2
        /\ last_setter'.events[1] = [ev |-> "invalidateFilter", seen |-> Criteria']
        /\ last_setter'.events[2] = [ev |-> "filter_changed", seen |-> Criteria']
  /\ ~SetterStep
     => /\ Criteria' = Criteria
        /\ invalidated' = invalidated
        /\ emitted' = emitted
  /\ accepted'.evaluated
     => accepted'.result = filterAcceptsRow(accepted'.row, _valid_statuses',
                                            _valid_type_ids', _show_folders',
                                            filter_regexp')

C9_SettersReplaceInvalidateEmit == [][C9_SettersStep]_vars

C9_Witness ==
  /\ setter_calls = 2
  /\ emitted = 2
  /\ last_setter.op = "set_filter_by_status"
  /\ _valid_statuses = "ip"
  /\ _valid_type_ids = Ids({7})
  /\ ~_show_folders
  /\ accepted.evaluated
  /\ accepted.row.sg_data.kind = "dict"
  /\ accepted.result.value

====
